---- MODULE Spec2Model ----
(***************************************************************************)
(* Model of the budget ledger server (src/main.go, lines 1-416): the        *)
(* in-memory {balance, budget} pair guarded by Server.mu, the 8-byte state *)
(* file budget.dat, the two ThreadSafeLogger sinks and the four HTTP       *)
(* handlers behind authMiddleware.  Each request is served by its own      *)
(* goroutine; a goroutine's steps are split at the points where it touches *)
(* shared state (mutexes, s.balance, s.budget, the file, the logs).        *)
(***************************************************************************)
EXTENDS Integers, Sequences, FiniteSets, TLC

(* ------------------------------------------------------------------ *)
(* Bounds of the model                                                  *)
(* ------------------------------------------------------------------ *)
\* number of goroutines that may serve requests at the same time
NumClients == 2
\* requests received in one behaviour of the concurrent server
MaxRequests == 2
\* requests received in one behaviour of the server with one client
MaxSeqRequests == 2
\* Spend requests received in one behaviour of the Spend-only server
MaxSpends == 3
\* number of file-system calls that may fail in one behaviour
MaxFaults == 1
\* requests received in one behaviour of the server that may crash
MaxCrashRequests == 2

(* ------------------------------------------------------------------ *)
(* Program constants                                                    *)
(* ------------------------------------------------------------------ *)
maxBalance == 2000000000
\* single-transaction cap of handleSpend
spendLimit == 100000000
\* largest value of an int32 field
MaxInt32 == 2147483647
MinInt32 == (-MaxInt32) - 1

(* ------------------------------------------------------------------ *)
(* int32 arithmetic and the little-endian encoding                      *)
(* (every intermediate value stays inside [MinInt32, MaxInt32])         *)
(* ------------------------------------------------------------------ *)
\* a + b on int32, wrapping around modulo 2^32 as Go does
Add32(a, b) ==
    IF b >= 0
    THEN IF a > MaxInt32 - b
         THEN MinInt32 + ((a - (MaxInt32 - b)) - 1)
         ELSE a + b
    ELSE IF a < MinInt32 - b
         THEN MaxInt32 - (((MinInt32 - b) - a) - 1)
         ELSE a + b

\* a - b on int32, wrapping around modulo 2^32 as Go does
Sub32(a, b) ==
    IF b = MinInt32
    THEN (IF a >= 0 THEN a + MinInt32 ELSE a - MinInt32)
    ELSE Add32(a, -b)

\* the mathematical a + b leaves the int32 range
AddOverflows(a, b) ==
    \/ b >= 0 /\ a > MaxInt32 - b
    \/ b < 0  /\ a < MinInt32 - b

\* the mathematical a - b leaves the int32 range
SubOverflows(a, b) ==
    IF b = MinInt32 THEN a >= 0 ELSE AddOverflows(a, -b)

\* fault: the sign bit is lost when the int32 is turned into bytes
PutUint32_NoSign(x) ==
    LET low == IF x >= 0 THEN x ELSE x - MinInt32
    IN  << low % 256, (low \div 256) % 256, (low \div 65536) % 256, low \div 16777216 >>

\* binary.LittleEndian.PutUint32(buf, uint32(x)): the four bytes of x's
\* two's complement bit pattern, least significant byte first
PutUint32(x) ==
    LET low == IF x >= 0 THEN x ELSE x - MinInt32
    IN  << low % 256,
           (low \div 256) % 256,
           (low \div 65536) % 256,
           (low \div 16777216) + (IF x < 0 THEN 128 ELSE 0) >>

\* int32(binary.LittleEndian.Uint32(b)) for a 4-byte sequence b
Uint32(b) ==
    LET low == b[1] + 256 * b[2] + 65536 * b[3] + 16777216 * (b[4] % 128)
    IN  IF b[4] >= 128 THEN MinInt32 + low ELSE low

\* the 8 bytes saveData writes for the pair (bal, bud)
EncodeState(bal, bud) == PutUint32(bal) \o PutUint32(bud)

\* the 4 bytes the legacy saveBalance wrote for a balance
EncodeLegacy(bal) == PutUint32(bal)

\* the pair loadData reads from an 8-byte file
DecodeState(data) ==
    [balance |-> Uint32(SubSeq(data, 1, 4)), budget |-> Uint32(SubSeq(data, 5, 8))]

(* ------------------------------------------------------------------ *)
(* State                                                                *)
(* ------------------------------------------------------------------ *)
VARIABLES
    balance,    \* Server.balance
    budget,     \* Server.budget
    mu,         \* Server.mu: 0 when free, else the goroutine holding it
    dbFile,     \* budget.dat: [exists, data], data a sequence of bytes
    transLog,   \* lines of transactions.csv: <<user, action, amount>>
    unauthLog,  \* lines of unauthorized.log: <<user, remote address>>
    tlMu,       \* transLogger.mu: 0 when free, else its holder
    ulMu,       \* unauthLogger.mu: 0 when free, else its holder
    pc,         \* where each goroutine stands
    req,        \* the request each client goroutine serves
    tmp,        \* handler locals: values read from the ledger
    buf,        \* saveData's local byte slice 'data'
    last,       \* the exchange completed since the latest request arrived
    loadErr,    \* the error loadData returned to main, until main drops it
    nreq,       \* requests received so far
    nfault,     \* file-system calls that have failed so far
    nok,        \* Set, Spend and Set-budget requests answered 200 so far
    lockOrder,  \* history: the lines of the mutations that took s.mu, in the
                \* order of their s.mu.Lock(), less those answered 400 or 500
    crashed     \* history: the states before and during the save a crash cut

vars == << balance, budget, mu, dbFile, transLog, unauthLog, tlMu, ulMu,
           pc, req, tmp, buf, last, loadErr, nreq, nfault, nok, lockOrder, crashed >>

\* the ledger and everything durable: what a no-op must leave alone
ledgerVars == << balance, budget, dbFile, transLog, unauthLog >>

\* the goroutine of main(), which runs loadData before any handler
Main == 0
Clients == 1 .. NumClients
Procs == {Main} \cup Clients

\* the allowlist loadUsers builds
users == {"PAUL", "MARIA"}

NoFile == [exists |-> FALSE, data |-> << >>]
File(bytes) == [exists |-> TRUE, data |-> bytes]

NoRequest ==
    [route |-> "none", method |-> "none", user |-> "", addr |-> "", ok |-> FALSE,
     val |-> 0]
NoLocals == [old |-> 0, diff |-> 0, bal |-> 0]
NoExchange == [client |-> Main, req |-> NoRequest, status |-> 0, body |-> << >>]
NoState == [balance |-> 0, budget |-> 0]
NoCrash == [happened |-> FALSE, before |-> NoState, during |-> NoState]

(* ------------------------------------------------------------------ *)
(* Inputs                                                               *)
(* ------------------------------------------------------------------ *)
\* state files main() may find at start: none, a legacy 4-byte file, a file
\* of a length loadData does not know, and an 8-byte file of this service
InitFiles ==
    {NoFile, File(<< 1, 2, 3 >>), File(EncodeLegacy(-60)), File(EncodeState(1000, 100))}

\* r.RemoteAddr: allowed users call from one address, the others from another
RemoteAddr(user) == IF user \in users THEN "10.0.0.1" ELSE "10.0.0.2"

Req(route, method, user, ok, val) ==
    [route |-> route, method |-> method, user |-> user, addr |-> RemoteAddr(user),
     ok |-> ok, val |-> val]

Routes == {"get", "set", "spend", "set_budget"}
\* the routes whose handlers write the ledger
Mutations == {"set", "spend", "set_budget"}
RightMethod(route) == IF route = "get" THEN "GET" ELSE "POST"

\* requests the middleware or a handler's prologue turns away: OPTIONS,
\* an empty or unknown credential, a wrong method, an unparsable body
BadRequests ==
    {Req(r, "OPTIONS", "", TRUE, 10) : r \in Routes}
        \cup {Req("set", "OPTIONS", "PAUL", TRUE, 10)}
        \cup {Req(r, RightMethod(r), "", TRUE, 10) : r \in Routes}
        \cup {Req("spend", "POST", "EVE", TRUE, 10)}
        \cup {Req("get", "POST", "PAUL", TRUE, 0)}
        \cup {Req(r, "GET", "PAUL", TRUE, 10) : r \in Routes \ {"get"}}
        \cup {Req(r, "POST", "PAUL", FALSE, 0) : r \in Routes \ {"get"}}

\* one request or two for each way of being turned away
ProbeRequests ==
    {r \in BadRequests :
        \/ r.user = "PAUL"
        \/ r.method = "OPTIONS" /\ r.route = "get"
        \/ r.method # "OPTIONS" /\ r.route \in {"get", "spend"} /\ r.user = "EVE"
        \/ r.method # "OPTIONS" /\ r.route = "set_budget" /\ r.user = ""}

\* well-formed requests of allowed users, everyday amounts and one amount
\* outside each handler's range
Requests ==
    ProbeRequests
        \cup {Req("get", "GET", "PAUL", TRUE, 0)}
        \cup {Req("set", "POST", "PAUL", TRUE, a) : a \in {1000, maxBalance + 1}}
        \cup {Req("spend", "POST", u, TRUE, 10) : u \in users}
        \cup {Req("spend", "POST", "PAUL", TRUE, spendLimit + 1)}
        \cup {Req("set_budget", "POST", "MARIA", TRUE, b) : b \in {-1, 150}}

\* well-formed requests of one allowed user at the edges of every range
SetAmounts == {MinInt32, maxBalance, maxBalance + 1}
SpendAmounts ==
    {(-spendLimit) - 1, -spendLimit, 1, spendLimit, spendLimit + 1}
BudgetAmounts == {-1, 0, 40, 150, maxBalance, maxBalance + 1}
EdgeRequests ==
    {Req("get", "GET", "PAUL", TRUE, 0)}
        \cup {Req("set", "POST", "PAUL", TRUE, a) : a \in SetAmounts}
        \cup {Req("spend", "POST", "PAUL", TRUE, a) : a \in SpendAmounts}
        \cup {Req("set_budget", "POST", "PAUL", TRUE, b) : b \in BudgetAmounts}

(* ------------------------------------------------------------------ *)
(* Initial state: main() has built the Server (zero-valued balance and *)
(* budget, both loggers open) and is about to call loadData             *)
(* ------------------------------------------------------------------ *)
Init ==
    /\ balance = 0
    /\ budget = 0
    /\ mu = 0
    /\ dbFile \in InitFiles
    /\ transLog = << >>
    /\ unauthLog = << >>
    /\ tlMu = 0
    /\ ulMu = 0
    /\ pc = [p \in Procs |-> IF p = Main THEN "load" ELSE "idle"]
    /\ req = [c \in Clients |-> NoRequest]
    /\ tmp = [c \in Clients |-> NoLocals]
    /\ buf = [p \in Procs |-> << >>]
    /\ last = NoExchange
    /\ loadErr = "none"
    /\ nreq = 0
    /\ nfault = 0
    /\ nok = 0
    /\ lockOrder = << >>
    /\ crashed = NoCrash

\* a file-system call may fail while the fault budget lasts
MayFail == nfault < MaxFaults

(* ------------------------------------------------------------------ *)
(* Helpers the handlers share                                           *)
(* ------------------------------------------------------------------ *)
SetPc(p, where) == pc' = [pc EXCEPT ![p] = where]

\* http.Error / WriteHeader / Fprintf / Encode and the handler's return:
\* the client receives the response and the goroutine ends
Reply(c, status, body) ==
    /\ last' = [client |-> c, req |-> req[c], status |-> status, body |-> body]
    /\ pc' = [pc EXCEPT ![c] = "idle"]
    /\ req' = [req EXCEPT ![c] = NoRequest]
    /\ tmp' = [tmp EXCEPT ![c] = NoLocals]
    /\ nok' = IF status = 200 /\ req[c].route \in Mutations THEN nok + 1 ELSE nok
    /\ lockOrder' = IF mu = c /\ req[c].route \in Mutations /\ status # 200
                    THEN SubSeq(lockOrder, 1, Len(lockOrder) - 1)
                    ELSE lockOrder
    /\ UNCHANGED crashed

\* fault: no method is taken for a pre-flight probe
Preflight_Never(method) == method = "OPTIONS" /\ method = "GET"

\* authMiddleware's test r.Method == "OPTIONS"
Preflight(method) == method = "OPTIONS"

\* fault: only the empty credential is refused
Authorized_AnyName(user) == ~(user = "")

\* authMiddleware's test of the Authorization header
Authorized(user) == ~(user = "" \/ user \notin users)

\* fault: the cap itself is refused
SetAllowed_OffByOne(amount) == ~(amount >= maxBalance)

\* handleSet's range test
SetAllowed(amount) == ~(amount > maxBalance)

\* fault: the negative side of the range is not tested
SpendAllowed_NoFloor(amount) == ~(amount > spendLimit)

\* handleSpend's range test
SpendAllowed(amount) == ~(amount > spendLimit \/ amount < -spendLimit)

\* fault: negative budgets are not refused
BudgetAllowed_NoFloor(b) == ~(b > maxBalance)

\* handleSetBudget's range test
BudgetAllowed(b) == ~(b < 0 \/ b > maxBalance)

\* fault: a Lock that never waits
CanLock_NoWait(m) == m = m

\* sync.Mutex.Lock returns only when no goroutine holds the mutex
CanLock(m) == m = 0

\* fault: every line is written with the action of handleSet
ActionName_AllSet(route) == IF route \in Mutations THEN "SET" ELSE "NONE"

\* the action name each handler passes to logTransaction
ActionName(route) ==
    CASE route = "set" -> "SET"
      [] route = "spend" -> "SPEND"
      [] route = "set_budget" -> "BUDGET_CHANGE"

\* the first step of each handler inside s.mu
FirstLocked(route) ==
    CASE route = "get" -> "get_read"
      [] route = "set" -> "set_write"
      [] route = "spend" -> "spend_check"
      [] route = "set_budget" -> "sb_read"

(* ------------------------------------------------------------------ *)
(* main: loadData, then the handlers are registered                     *)
(* ------------------------------------------------------------------ *)
\* fault: a missing state file is reported as an error
NotExistResult_Error == "not exist"

\* what loadData returns when os.IsNotExist(err): nil
NotExistResult == "nil"

loadData ==
    /\ pc[Main] = "load"
    /\ \/ \* os.ReadFile fails with an error other than "not exist"
          /\ dbFile.exists /\ MayFail
          /\ nfault' = nfault + 1
          /\ loadErr' = "read failed"
          /\ SetPc(Main, "loaded")
          /\ UNCHANGED << balance, budget >>
       \/ \* no file: start from {0, 0}
          /\ ~dbFile.exists
          /\ balance' = 0 /\ budget' = 0
          /\ loadErr' = NotExistResult
          /\ SetPc(Main, "loaded")
          /\ UNCHANGED nfault
       \/ \* legacy file: migrate, then save in the new format
          /\ dbFile.exists /\ Len(dbFile.data) = 4
          /\ balance' = Uint32(dbFile.data) /\ budget' = 0
          /\ SetPc(Main, "save_open")
          /\ UNCHANGED << loadErr, nfault >>
       \/ \* current format
          /\ dbFile.exists /\ Len(dbFile.data) = 8
          /\ balance' = DecodeState(dbFile.data).balance
          /\ budget' = DecodeState(dbFile.data).budget
          /\ loadErr' = "nil"
          /\ SetPc(Main, "loaded")
          /\ UNCHANGED nfault
       \/ \* any other length
          /\ dbFile.exists /\ Len(dbFile.data) \notin {4, 8}
          /\ loadErr' = "invalid data length"
          /\ SetPc(Main, "loaded")
          /\ UNCHANGED << balance, budget, nfault >>
    /\ UNCHANGED << mu, dbFile, transLog, unauthLog, tlMu, ulMu, req, tmp, buf,
                    last, nreq, nok, lockOrder, crashed >>

\* main after loadData: an error is logged as a warning and dropped, the
\* routes are registered and the listeners start
main ==
    /\ pc[Main] = "loaded"
    /\ SetPc(Main, "serving")
    /\ loadErr' = "none"
    /\ UNCHANGED << balance, budget, mu, dbFile, transLog, unauthLog, tlMu, ulMu,
                    req, tmp, buf, last, nreq, nfault, nok, lockOrder, crashed >>

(* ------------------------------------------------------------------ *)
(* saveData, called by loadData (goroutine Main) and by the handlers    *)
(* ------------------------------------------------------------------ *)
\* fault: the handlers go on to the audit line whatever saveData returned
saveReturn_ErrorIgnored(p, ok) ==
    /\ buf' = [buf EXCEPT ![p] = << >>]
    /\ IF p = Main
       THEN /\ SetPc(p, "loaded")
            /\ loadErr' = IF ok THEN "nil" ELSE "save failed"
            /\ UNCHANGED << mu, last, req, tmp, nok, lockOrder, crashed >>
       ELSE /\ SetPc(p, "tlog_lock")
            /\ UNCHANGED << mu, last, req, tmp, loadErr, nok, lockOrder, crashed >>

\* what the caller of saveData does with its result
saveReturn(p, ok) ==
    /\ buf' = [buf EXCEPT ![p] = << >>]
    /\ IF p = Main
       THEN /\ SetPc(p, "loaded")
            /\ loadErr' = IF ok THEN "nil" ELSE "save failed"
            /\ UNCHANGED << mu, last, req, tmp, nok, lockOrder, crashed >>
       ELSE IF ok
            THEN /\ SetPc(p, "tlog_lock")
                 /\ UNCHANGED << mu, last, req, tmp, loadErr, nok, lockOrder, crashed >>
            ELSE \* 500, and the deferred s.mu.Unlock()
                 /\ Reply(p, 500, << >>)
                 /\ mu' = 0
                 /\ UNCHANGED loadErr

\* data := the 8 bytes; os.OpenFile(dbFile, O_RDWR|O_CREATE|O_TRUNC)
saveData_open(p) ==
    /\ pc[p] = "save_open"
    /\ \/ /\ buf' = [buf EXCEPT ![p] = EncodeState(balance, budget)]
          /\ dbFile' = File(<< >>)
          /\ SetPc(p, "save_write")
          /\ UNCHANGED << mu, last, req, tmp, loadErr, nfault, nok, lockOrder, crashed >>
       \/ /\ MayFail
          /\ nfault' = nfault + 1
          /\ saveReturn(p, FALSE)
          /\ UNCHANGED dbFile
    /\ UNCHANGED << balance, budget, transLog, unauthLog, tlMu, ulMu, nreq >>

\* f.Write(data): all 8 bytes, or an error after a short write
saveData_write(p) ==
    /\ pc[p] = "save_write"
    /\ \/ /\ dbFile' = File(dbFile.data \o buf[p])
          /\ SetPc(p, "save_sync")
          /\ UNCHANGED << mu, last, req, tmp, buf, loadErr, nfault, nok, lockOrder, crashed >>
       \/ /\ MayFail
          /\ nfault' = nfault + 1
          /\ \E k \in 0 .. (Len(buf[p]) - 1) :
                dbFile' = File(dbFile.data \o SubSeq(buf[p], 1, k))
          /\ saveReturn(p, FALSE)
    /\ UNCHANGED << balance, budget, transLog, unauthLog, tlMu, ulMu, nreq >>

\* f.Sync(), then the deferred f.Close()
saveData_sync(p) ==
    /\ pc[p] = "save_sync"
    /\ \/ /\ saveReturn(p, TRUE)
          /\ UNCHANGED nfault
       \/ /\ MayFail
          /\ nfault' = nfault + 1
          /\ saveReturn(p, FALSE)
    /\ UNCHANGED << balance, budget, dbFile, transLog, unauthLog, tlMu, ulMu, nreq >>

(* ------------------------------------------------------------------ *)
(* authMiddleware: a request arrives and a goroutine serves it.  The    *)
(* goroutines are interchangeable, so the lowest idle one takes it.     *)
(* ------------------------------------------------------------------ *)
authMiddleware(c, r) ==
    /\ pc[Main] = "serving"
    /\ pc[c] = "idle"
    /\ \A d \in Clients : d < c => pc[d] # "idle"
    /\ nreq' = nreq + 1
    /\ \/ /\ Preflight(r.method)
          /\ last' = [client |-> c, req |-> r, status |-> 200, body |-> << >>]
          /\ UNCHANGED << pc, req >>
       \/ /\ ~Preflight(r.method)
          /\ ~Authorized(r.user)
          /\ last' = NoExchange
          /\ req' = [req EXCEPT ![c] = r]
          /\ SetPc(c, "ulog_lock")
       \/ /\ ~Preflight(r.method)
          /\ Authorized(r.user)
          /\ last' = NoExchange
          /\ req' = [req EXCEPT ![c] = r]
          /\ SetPc(c, "handler")
    /\ UNCHANGED << balance, budget, mu, dbFile, transLog, unauthLog, tlMu, ulMu,
                    tmp, buf, loadErr, nfault, nok, lockOrder, crashed >>

\* logUnauthorized -> unauthLogger.Log: l.mu.Lock()
logUnauthorized_lock(c) ==
    /\ pc[c] = "ulog_lock"
    /\ CanLock(ulMu)
    /\ ulMu' = c
    /\ SetPc(c, "ulog_write")
    /\ UNCHANGED << balance, budget, mu, dbFile, transLog, unauthLog, tlMu,
                    req, tmp, buf, last, loadErr, nreq, nfault, nok, lockOrder, crashed >>

\* fmt.Fprintf of the line to the log, then the deferred l.mu.Unlock()
logUnauthorized_write(c) ==
    /\ pc[c] = "ulog_write"
    /\ unauthLog' = Append(unauthLog, << req[c].user, req[c].addr >>)
    /\ ulMu' = 0
    /\ SetPc(c, "deny")
    /\ UNCHANGED << balance, budget, mu, dbFile, transLog, tlMu,
                    req, tmp, buf, last, loadErr, nreq, nfault, nok, lockOrder, crashed >>

\* authMiddleware after logUnauthorized: http.Error(w, "Unauthorized", 401)
\* and the return, without calling next
authMiddleware_deny(c) ==
    /\ pc[c] = "deny"
    /\ Reply(c, 401, << >>)
    /\ UNCHANGED << balance, budget, mu, dbFile, transLog, unauthLog, tlMu, ulMu,
                    buf, loadErr, nreq, nfault >>

(* ------------------------------------------------------------------ *)
(* The handlers up to s.mu.Lock(): method, body, range                  *)
(* ------------------------------------------------------------------ *)
\* a handler's prologue either answers with an error status or goes on to
\* s.mu.Lock(); it touches nothing shared
Prologue(c, status) ==
    /\ IF status = 0
       THEN SetPc(c, "lock") /\ UNCHANGED << last, req, tmp, nok, lockOrder, crashed >>
       ELSE Reply(c, status, << >>)
    /\ UNCHANGED << balance, budget, mu, dbFile, transLog, unauthLog, tlMu, ulMu,
                    buf, loadErr, nreq, nfault >>

handleGet(c) ==
    /\ pc[c] = "handler" /\ req[c].route = "get"
    /\ Prologue(c, IF req[c].method # "GET" THEN 405 ELSE 0)

handleSet(c) ==
    /\ pc[c] = "handler" /\ req[c].route = "set"
    /\ Prologue(c, IF req[c].method # "POST" THEN 405
                   ELSE IF ~req[c].ok THEN 400
                   ELSE IF ~SetAllowed(req[c].val) THEN 400
                   ELSE 0)

handleSpend(c) ==
    /\ pc[c] = "handler" /\ req[c].route = "spend"
    /\ Prologue(c, IF req[c].method # "POST" THEN 405
                   ELSE IF ~req[c].ok THEN 400
                   ELSE 0)

handleSetBudget(c) ==
    /\ pc[c] = "handler" /\ req[c].route = "set_budget"
    /\ Prologue(c, IF req[c].method # "POST" THEN 405
                   ELSE IF ~req[c].ok THEN 400
                   ELSE IF ~BudgetAllowed(req[c].val) THEN 400
                   ELSE 0)

\* s.mu.Lock() of every handler
Lock(c) ==
    /\ pc[c] = "lock"
    /\ CanLock(mu)
    /\ mu' = c
    /\ SetPc(c, FirstLocked(req[c].route))
    /\ lockOrder' = IF req[c].route \in Mutations
                    THEN Append(lockOrder, << req[c].user, ActionName(req[c].route),
                                             req[c].val >>)
                    ELSE lockOrder
    /\ UNCHANGED << balance, budget, dbFile, transLog, unauthLog, tlMu, ulMu,
                    req, tmp, buf, last, loadErr, nreq, nfault, nok, crashed >>

(* ------------------------------------------------------------------ *)
(* The handlers inside s.mu                                             *)
(* ------------------------------------------------------------------ *)
\* the frame of a step that touches only the ledger's memory
MemStep == UNCHANGED << mu, dbFile, transLog, unauthLog, tlMu, ulMu, req, buf,
                        last, loadErr, nreq, nfault, nok, lockOrder, crashed >>

\* handleGet: read both fields, encode them, the deferred unlock
handleGet_read(c) ==
    /\ pc[c] = "get_read"
    /\ Reply(c, 200, << balance, budget >>)
    /\ mu' = 0
    /\ UNCHANGED << balance, budget, dbFile, transLog, unauthLog, tlMu, ulMu,
                    buf, loadErr, nreq, nfault >>

\* handleSet: s.balance = req.Amount
handleSet_write(c) ==
    /\ pc[c] = "set_write"
    /\ balance' = req[c].val
    /\ SetPc(c, "save_open")
    /\ UNCHANGED << budget, tmp >>
    /\ MemStep

\* fault: the range rejection returns without releasing s.mu
handleSpend_check_NoUnlock(c) ==
    /\ pc[c] = "spend_check"
    /\ IF SpendAllowed(req[c].val)
       THEN /\ tmp' = [tmp EXCEPT ![c].bal = balance]
            /\ SetPc(c, "spend_write")
            /\ UNCHANGED << mu, last, req, nok, lockOrder, crashed >>
       ELSE /\ Reply(c, 400, << >>)
            /\ UNCHANGED mu
    /\ UNCHANGED << balance, budget, dbFile, transLog, unauthLog, tlMu, ulMu,
                    buf, loadErr, nreq, nfault >>

\* handleSpend: the range test made inside the lock, then the load of
\* s.balance for "s.balance -= req.Amount"
handleSpend_check(c) ==
    /\ pc[c] = "spend_check"
    /\ IF SpendAllowed(req[c].val)
       THEN /\ tmp' = [tmp EXCEPT ![c].bal = balance]
            /\ SetPc(c, "spend_write")
            /\ UNCHANGED << mu, last, req, nok, lockOrder, crashed >>
       ELSE /\ Reply(c, 400, << >>)
            /\ mu' = 0
    /\ UNCHANGED << balance, budget, dbFile, transLog, unauthLog, tlMu, ulMu,
                    buf, loadErr, nreq, nfault >>

\* handleSpend: the store of "s.balance -= req.Amount"
handleSpend_write(c) ==
    /\ pc[c] = "spend_write"
    /\ balance' = Sub32(tmp[c].bal, req[c].val)
    /\ SetPc(c, "save_open")
    /\ UNCHANGED << budget, tmp >>
    /\ MemStep

\* handleSetBudget: oldBudget := s.budget; diff := req.Budget - oldBudget
handleSetBudget_read(c) ==
    /\ pc[c] = "sb_read"
    /\ tmp' = [tmp EXCEPT ![c].old = budget, ![c].diff = Sub32(req[c].val, budget)]
    /\ SetPc(c, "sb_budget")
    /\ UNCHANGED << balance, budget >>
    /\ MemStep

\* handleSetBudget: s.budget = req.Budget, and the load of s.balance
handleSetBudget_budget(c) ==
    /\ pc[c] = "sb_budget"
    /\ budget' = req[c].val
    /\ tmp' = [tmp EXCEPT ![c].bal = balance]
    /\ SetPc(c, "sb_balance")
    /\ UNCHANGED balance
    /\ MemStep

\* handleSetBudget: the store of "s.balance += diff"
handleSetBudget_balance(c) ==
    /\ pc[c] = "sb_balance"
    /\ balance' = Add32(tmp[c].bal, tmp[c].diff)
    /\ SetPc(c, "save_open")
    /\ UNCHANGED << budget, tmp >>
    /\ MemStep

\* logTransaction -> transLogger.Log: l.mu.Lock(), still inside s.mu
logTransaction_lock(c) ==
    /\ pc[c] = "tlog_lock"
    /\ CanLock(tlMu)
    /\ tlMu' = c
    /\ SetPc(c, "tlog_write")
    /\ UNCHANGED << balance, budget, mu, dbFile, transLog, unauthLog, ulMu,
                    req, tmp, buf, last, loadErr, nreq, nfault, nok, lockOrder, crashed >>

\* fmt.Fprintf of the line, then the deferred l.mu.Unlock()
logTransaction_write(c) ==
    /\ pc[c] = "tlog_write"
    /\ transLog' = Append(transLog,
                          << req[c].user, ActionName(req[c].route), req[c].val >>)
    /\ tlMu' = 0
    /\ SetPc(c, "respond")
    /\ UNCHANGED << balance, budget, mu, dbFile, unauthLog, ulMu,
                    req, tmp, buf, last, loadErr, nreq, nfault, nok, lockOrder, crashed >>

\* the body each mutating handler writes on success
SuccessBody(route) ==
    IF route = "set_budget" THEN << balance, budget >> ELSE << balance >>

\* the 200 response, then the deferred s.mu.Unlock()
respond(c) ==
    /\ pc[c] = "respond"
    /\ Reply(c, 200, SuccessBody(req[c].route))
    /\ mu' = 0
    /\ UNCHANGED << balance, budget, dbFile, transLog, unauthLog, tlMu, ulMu,
                    buf, loadErr, nreq, nfault >>

(* ------------------------------------------------------------------ *)
(* The server                                                           *)
(* ------------------------------------------------------------------ *)
\* the steps of the goroutines C serving at most n requests drawn from R
Serve(C, R, n) ==
    \/ \E c \in C : \E r \in R : nreq < n /\ authMiddleware(c, r)
    \/ \E c \in C :
          \/ logUnauthorized_lock(c)
          \/ logUnauthorized_write(c)
          \/ authMiddleware_deny(c)
    \/ \E c \in C : handleGet(c) \/ handleSet(c) \/ handleSpend(c) \/ handleSetBudget(c)
    \/ \E c \in C : Lock(c)
    \/ \E c \in C : handleGet_read(c) \/ handleSet_write(c)
    \/ \E c \in C : handleSpend_check(c) \/ handleSpend_write(c)
    \/ \E c \in C :
          \/ handleSetBudget_read(c)
          \/ handleSetBudget_budget(c)
          \/ handleSetBudget_balance(c)
    \/ \E c \in C : logTransaction_lock(c) \/ logTransaction_write(c) \/ respond(c)

\* saveData as run by the goroutines P
Save(P) == \E p \in P : saveData_open(p) \/ saveData_write(p) \/ saveData_sync(p)

Next == loadData \/ main \/ Save(Procs) \/ Serve(Clients, Requests, MaxRequests)

\* the server with concurrent clients
Spec == Init /\ [][Next]_vars

\* one client at a time, with amounts at the edges of every range
OneClient == {c \in Clients : \A d \in Clients : c <= d}
SeqRequests == EdgeRequests \cup BadRequests
SeqNext ==
    \/ loadData
    \/ main
    \/ Save({Main} \cup OneClient)
    \/ Serve(OneClient, SeqRequests, MaxSeqRequests)

SeqSpec == Init /\ [][SeqNext]_vars

\* the server started on a legacy 4-byte state file, one client at a time
MigratedValues == {-60, 70000}
MigrationInit ==
    /\ balance = 0
    /\ budget = 0
    /\ mu = 0
    /\ dbFile \in {File(EncodeLegacy(V)) : V \in MigratedValues}
    /\ transLog = << >>
    /\ unauthLog = << >>
    /\ tlMu = 0
    /\ ulMu = 0
    /\ pc = [p \in Procs |-> IF p = Main THEN "load" ELSE "idle"]
    /\ req = [c \in Clients |-> NoRequest]
    /\ tmp = [c \in Clients |-> NoLocals]
    /\ buf = [p \in Procs |-> << >>]
    /\ last = NoExchange
    /\ loadErr = "none"
    /\ nreq = 0
    /\ nfault = 0
    /\ nok = 0
    /\ lockOrder = << >>
    /\ crashed = NoCrash
MigrationSpec == MigrationInit /\ [][SeqNext]_vars

\* The process dies while goroutine c is inside saveData and is started
\* again.  Memory is lost: main() builds a new Server and calls loadData.
\* The state file is what had reached the disk: before os.OpenFile it is
\* untouched, after the truncation it is empty, and between f.Write and the
\* end of f.Sync any number of the 8 bytes may have reached it.  The states
\* before and during the interrupted mutation are kept in 'crashed'.
Crash(c) ==
    /\ pc[c] \in {"save_open", "save_write", "save_sync"}
    /\ ~crashed.happened
    /\ crashed' =
          [happened |-> TRUE,
           before |-> [balance |-> tmp[c].bal,
                       budget |-> IF req[c].route = "set_budget"
                                  THEN tmp[c].old ELSE budget],
           during |-> [balance |-> balance, budget |-> budget]]
    /\ \/ pc[c] \in {"save_open", "save_write"} /\ dbFile' = dbFile
       \/ /\ pc[c] = "save_sync"
          /\ \E k \in 0 .. Len(dbFile.data) :
                dbFile' = File(SubSeq(dbFile.data, 1, k))
    /\ balance' = 0 /\ budget' = 0
    /\ mu' = 0 /\ tlMu' = 0 /\ ulMu' = 0
    /\ pc' = [p \in Procs |-> IF p = Main THEN "load" ELSE "idle"]
    /\ req' = [d \in Clients |-> NoRequest]
    /\ tmp' = [d \in Clients |-> NoLocals]
    /\ buf' = [p \in Procs |-> << >>]
    /\ last' = NoExchange
    /\ loadErr' = "none"
    /\ lockOrder' = transLog
    /\ UNCHANGED << transLog, unauthLog, nreq, nfault, nok >>

\* Get, Spend and Set-budget requests of allowed users
CrashRequests ==
    {Req("get", "GET", "PAUL", TRUE, 0),
     Req("spend", "POST", "PAUL", TRUE, 10),
     Req("set_budget", "POST", "MARIA", TRUE, 150)}

\* the server started with no state file or with the file of {1000, 100};
\* file operations do not fail, but the process may die once inside a save
CrashInit ==
    /\ balance = 0
    /\ budget = 0
    /\ mu = 0
    /\ dbFile \in {NoFile, File(EncodeState(1000, 100))}
    /\ transLog = << >>
    /\ unauthLog = << >>
    /\ tlMu = 0
    /\ ulMu = 0
    /\ pc = [p \in Procs |-> IF p = Main THEN "load" ELSE "idle"]
    /\ req = [c \in Clients |-> NoRequest]
    /\ tmp = [c \in Clients |-> NoLocals]
    /\ buf = [p \in Procs |-> << >>]
    /\ last = NoExchange
    /\ loadErr = "none"
    /\ nreq = 0
    /\ nfault = MaxFaults
    /\ nok = 0
    /\ lockOrder = << >>
    /\ crashed = NoCrash

CrashNext ==
    \/ loadData
    \/ main
    \/ Save({Main} \cup OneClient)
    \/ \E c \in OneClient : \E r \in CrashRequests :
          nreq < MaxCrashRequests /\ authMiddleware(c, r)
    \/ \E c \in OneClient : handleGet(c) \/ handleSpend(c) \/ handleSetBudget(c)
    \/ \E c \in OneClient : Lock(c) \/ handleGet_read(c)
    \/ \E c \in OneClient : handleSpend_check(c) \/ handleSpend_write(c)
    \/ \E c \in OneClient :
          \/ handleSetBudget_read(c)
          \/ handleSetBudget_budget(c)
          \/ handleSetBudget_balance(c)
    \/ \E c \in OneClient : logTransaction_lock(c) \/ logTransaction_write(c) \/ respond(c)
    \/ \E c \in OneClient : Crash(c)

CrashSpec == CrashInit /\ [][CrashNext]_vars

\* the steps goroutine p takes without waiting for a mutex
Run(p) ==
    \/ saveData_open(p) \/ saveData_write(p) \/ saveData_sync(p)
    \/ /\ p \in Clients
       /\ \/ logUnauthorized_write(p) \/ authMiddleware_deny(p)
          \/ handleGet(p) \/ handleSet(p) \/ handleSpend(p) \/ handleSetBudget(p)
          \/ handleGet_read(p) \/ handleSet_write(p)
          \/ handleSpend_check(p) \/ handleSpend_write(p)
          \/ handleSetBudget_read(p) \/ handleSetBudget_budget(p)
          \/ handleSetBudget_balance(p)
          \/ logTransaction_write(p) \/ respond(p)

\* scheduling: a goroutine that can run does run and every file operation
\* returns (weak fairness); a goroutine waiting in sync.Mutex.Lock is not
\* passed over for ever, as the mutex hands over to a starving waiter
\* (strong fairness)
Fairness ==
    /\ WF_vars(loadData) /\ WF_vars(main)
    /\ \A p \in Procs : WF_vars(Run(p))
    /\ \A c \in Clients :
          /\ SF_vars(Lock(c))
          /\ SF_vars(logTransaction_lock(c))
          /\ SF_vars(logUnauthorized_lock(c))

\* the server with concurrent clients under that scheduling
LiveSpec == Init /\ [][Next]_vars /\ Fairness

\* N concurrent Spend requests of 10 against a balance of 1000, every save
\* succeeding: the server as it stands after loading a state file that
\* holds balance 1000
SpendRequests == {Req("spend", "POST", u, TRUE, 10) : u \in users}
SpendInit ==
    /\ balance = 1000
    /\ budget = 100
    /\ mu = 0
    /\ dbFile = File(EncodeState(1000, 100))
    /\ transLog = << >>
    /\ unauthLog = << >>
    /\ tlMu = 0
    /\ ulMu = 0
    /\ pc = [p \in Procs |-> IF p = Main THEN "serving" ELSE "idle"]
    /\ req = [c \in Clients |-> NoRequest]
    /\ tmp = [c \in Clients |-> NoLocals]
    /\ buf = [p \in Procs |-> << >>]
    /\ last = NoExchange
    /\ loadErr = "none"
    /\ nreq = 0
    /\ nfault = MaxFaults
    /\ nok = 0
    /\ lockOrder = << >>
    /\ crashed = NoCrash

SpendNext ==
    \/ \E c \in Clients : \E r \in SpendRequests : nreq < MaxSpends /\ authMiddleware(c, r)
    \/ \E c \in Clients : handleSpend(c) \/ Lock(c)
    \/ \E c \in Clients : handleSpend_check(c) \/ handleSpend_write(c)
    \/ Save(Clients)
    \/ \E c \in Clients : logTransaction_lock(c) \/ logTransaction_write(c) \/ respond(c)

SpendSpec == SpendInit /\ [][SpendNext]_vars

(* ------------------------------------------------------------------ *)
(* Properties                                                           *)
(* ------------------------------------------------------------------ *)
\* the positions of a handler between s.mu.Lock() and the deferred Unlock
LockedPcs ==
    {"get_read", "set_write", "spend_check", "spend_write", "sb_read", "sb_budget",
     "sb_balance", "save_open", "save_write", "save_sync", "tlog_lock", "tlog_write",
     "respond"}
InSection(c) == pc[c] \in LockedPcs
Quiescent == \A c \in Clients : pc[c] = "idle"
\* client c writes its response in this step
Replies(c) == pc[c] # "idle" /\ pc'[c] = "idle"
\* a Set-budget has stored the new budget and not yet the new balance
HalfApplied == \E d \in Clients : pc[d] = "sb_balance"

\* C1: no lost updates.  Under SpendSpec (balance 1000, N Spend requests of
\* 10 each, any interleaving, every save succeeding), once every request has
\* been answered the balance is exactly 1000 - 10 * N.
C1_NoLostUpdates == Quiescent => balance = 1000 - 10 * nreq

\* three Spend requests have all been answered
C1_Witness == Quiescent /\ nreq = 3 /\ Len(transLog) = 3 /\ balance = 970

\* C2: Get, Set, Spend and Set-budget exclude each other: at most one
\* goroutine is between s.mu.Lock() and its Unlock, and a Get answers with
\* the pair it reads at a moment when no Set-budget is half applied.
C2_MutualExclusion ==
    /\ [](Cardinality({c \in Clients : InSection(c)}) <= 1)
    /\ [][\A c \in Clients :
            (pc[c] = "get_read" /\ Replies(c))
                => /\ ~HalfApplied
                   /\ last'.status = 200
                   /\ last'.body = << balance, budget >>]_vars

\* a Get waits for the lock while a Set-budget is half applied
C2_Witness ==
    \E c, d \in Clients :
        /\ pc[c] = "lock" /\ req[c].route = "get"
        /\ pc[d] = "sb_balance" /\ budget # tmp[d].old

\* C3: round trip.  Whenever a Set, Spend or Set-budget has saved and is
\* about to answer 200, the state file holds exactly 8 bytes, and decoding
\* them as loadData does gives the balance and budget in memory.
C3_RoundTrip ==
    \A c \in Clients :
        pc[c] \in {"tlog_lock", "tlog_write", "respond"}
            => /\ dbFile.exists
               /\ Len(dbFile.data) = 8
               /\ DecodeState(dbFile.data) = [balance |-> balance, budget |-> budget]

\* a handler is about to answer 200 with a negative balance saved
C3_Witness ==
    \E c \in Clients :
        /\ pc[c] = "respond" /\ balance < 0 /\ budget > 0
        /\ DecodeState(dbFile.data).balance = balance

\* the positions of a handler once its prologue has let the request pass
PassedPcs == {"lock"} \cup LockedPcs
\* the latest exchange was a well-formed POST of an allowed user on route
PostAnswered(route, status) ==
    /\ last.req.route = route /\ last.req.method = "POST" /\ last.req.ok
    /\ last.req.user \in users
    /\ last.status = status

\* C4: balance <= MAX_BALANCE after every accepted Set, Spend or Set-budget
\* (the balance may be negative).
C4_BalanceCapped ==
    (Quiescent /\ \E route \in Mutations : PostAnswered(route, 200))
        => balance <= maxBalance

\* C5: 0 <= budget <= MAX_BALANCE in every state from startup on; budget is
\* written only by loadData and by Set-budget's store of the requested
\* value, and Set-budget lets exactly the values in [0, MAX_BALANCE] pass.
C5_BudgetRange ==
    /\ [](0 <= budget /\ budget <= maxBalance)
    /\ [](\A c \in Clients :
            (req[c].route = "set_budget" /\ pc[c] \in PassedPcs)
                => (0 <= req[c].val /\ req[c].val <= maxBalance))
    /\ [](PostAnswered("set_budget", 400)
            => (last.req.val < 0 \/ last.req.val > maxBalance))
    /\ [][budget' # budget
            => \/ pc[Main] = "load"
               \/ \E c \in Clients :
                    /\ pc[c] = "sb_budget" /\ pc'[c] = "sb_balance"
                    /\ budget' = req[c].val]_vars

\* a Set-budget to MAX_BALANCE itself has been answered 200
C5_Witness ==
    /\ Quiescent /\ PostAnswered("set_budget", 200)
    /\ last.req.val = maxBalance /\ budget = maxBalance

\* C6: arithmetic never silently wraps.  A Spend or Set-budget that is about
\* to answer 200 has stored the mathematical result of balance - amount
\* (balance + (budget - oldBudget)), which lies inside the int32 range and
\* is at most MAX_BALANCE; an operation whose result would not is rejected.
C6_NoSilentWrap ==
    \A c \in Clients :
        /\ (pc[c] = "respond" /\ req[c].route = "spend")
              => /\ ~SubOverflows(tmp[c].bal, req[c].val)
                 /\ balance = tmp[c].bal - req[c].val
                 /\ balance <= maxBalance
        /\ (pc[c] = "respond" /\ req[c].route = "set_budget")
              => /\ ~AddOverflows(tmp[c].bal, req[c].val - tmp[c].old)
                 /\ balance = tmp[c].bal + (req[c].val - tmp[c].old)
                 /\ balance <= maxBalance

\* C7: an accepted Set-budget to b from {balance = B, budget = old} yields
\* exactly {balance = B + (b - old), budget = b}.
C7_SetBudgetShift ==
    \A c \in Clients :
        (pc[c] = "respond" /\ req[c].route = "set_budget")
            => /\ budget = req[c].val
               /\ ~AddOverflows(tmp[c].bal, req[c].val - tmp[c].old)
               /\ balance = tmp[c].bal + (req[c].val - tmp[c].old)

\* C8: Spend passes exactly when -LIMIT <= amount <= LIMIT; an accepted
\* Spend leaves balance = old balance - amount, with no floor, and leaves
\* budget as it was.
C8_Spend ==
    /\ [](\A c \in Clients :
            (req[c].route = "spend" /\ pc[c] \in (LockedPcs \ {"spend_check"}))
                => (-spendLimit <= req[c].val /\ req[c].val <= spendLimit))
    /\ [](PostAnswered("spend", 400)
            => (last.req.val < -spendLimit \/ last.req.val > spendLimit))
    /\ [](\A c \in Clients :
            (pc[c] = "respond" /\ req[c].route = "spend")
                => /\ ~SubOverflows(tmp[c].bal, req[c].val)
                   /\ balance = tmp[c].bal - req[c].val)
    /\ [][\A c \in Clients :
            (req[c].route = "spend" /\ pc'[c] # pc[c]) => budget' = budget]_vars

\* C9: Set passes exactly when amount <= MAX_BALANCE (MAX_BALANCE passes,
\* MAX_BALANCE + 1 is answered 400); an accepted Set leaves balance = amount
\* and budget as it was, and answers 200 with the new balance.
C9_Set ==
    /\ [](\A c \in Clients :
            (req[c].route = "set" /\ pc[c] \in PassedPcs) => req[c].val <= maxBalance)
    /\ [](PostAnswered("set", 400) => last.req.val > maxBalance)
    /\ [](PostAnswered("set", 500) => nfault > 0)
    /\ [](\A c \in Clients :
            (pc[c] = "respond" /\ req[c].route = "set") => balance = req[c].val)
    /\ [][\A c \in Clients :
            /\ (req[c].route = "set" /\ pc'[c] # pc[c]) => budget' = budget
            /\ (req[c].route = "set" /\ pc[c] = "respond" /\ Replies(c))
                  => (last'.status = 200 /\ last'.body = << req[c].val >>)]_vars

\* a Set to MAX_BALANCE itself has been answered 200 with MAX_BALANCE
C9_Witness ==
    /\ Quiescent /\ PostAnswered("set", 200)
    /\ last.req.val = maxBalance /\ last.body = << maxBalance >>
    /\ balance = maxBalance

\* the requests C10 lists: wrong method, unparsable body, amount or budget
\* outside the handler's range, from a caller on the allowlist
ToBeRejected(r) ==
    /\ r.method # "OPTIONS" /\ r.user \in users
    /\ \/ r.method # RightMethod(r.route)
       \/ r.route # "get" /\ ~r.ok
       \/ r.route = "set" /\ r.val > maxBalance
       \/ r.route = "spend" /\ (r.val > spendLimit \/ r.val < -spendLimit)
       \/ r.route = "set_budget" /\ (r.val < 0 \/ r.val > maxBalance)

\* C10: a rejected request is a no-op.  Every step taken for a request of
\* the kinds listed leaves balance, budget, the state file and both logs
\* unchanged; such a request is answered 400 or 405, and nothing else is.
C10_RejectedNoOp ==
    [][\A c \in Clients :
        pc'[c] # pc[c] =>
            LET r == IF pc[c] = "idle" THEN req'[c] ELSE req[c]
            IN  /\ ToBeRejected(r) => UNCHANGED ledgerVars
                /\ (Replies(c) /\ ToBeRejected(r)) => last'.status \in {400, 405}
                /\ (Replies(c) /\ last'.status \in {400, 405})
                      => (ToBeRejected(r) /\ UNCHANGED ledgerVars)]_vars

\* a Spend over the cap has been answered 400 after an accepted mutation
C10_Witness ==
    /\ Quiescent /\ PostAnswered("spend", 400)
    /\ Len(transLog) = 1 /\ dbFile.exists /\ Len(dbFile.data) = 8

\* a request arrives in this step and goroutine c serves it
Arrives(c) ==
    /\ nreq' # nreq /\ pc[c] = "idle"
    /\ req'[c] # NoRequest \/ last'.client = c
\* the request that arrives
Arriving(c) == IF req'[c] # NoRequest THEN req'[c] ELSE last'.req
\* a request that is not a pre-flight probe and carries an empty credential
\* or one that is not in the allowlist
Unauthorized(r) ==
    /\ r.method \notin {"OPTIONS", "none"}
    /\ r.user = "" \/ r.user \notin users
\* the positions of a goroutine between the middleware's test and the 401
DeniedPcs == {"ulog_lock", "ulog_write", "deny"}

\* C11: a non-OPTIONS request with an empty or unknown credential never
\* reaches the route's handler; its goroutine appends exactly one line
\* (credential as supplied, remote address) to the unauthorized log, answers
\* 401 only after that line is written, and none of its steps changes
\* balance, budget, the state file or the transaction log.  Nothing else
\* writes to the unauthorized log.
C11_Unauthorized ==
    /\ [](\A c \in Clients : Unauthorized(req[c]) => pc[c] \in DeniedPcs)
    /\ [](\A c \in Clients :
            pc[c] = "deny"
                => \E i \in 1 .. Len(unauthLog) :
                      unauthLog[i] = << req[c].user, req[c].addr >>)
    /\ [][\A c \in Clients :
            /\ (Arrives(c) /\ Unauthorized(Arriving(c)))
                  => (pc'[c] = "ulog_lock" /\ UNCHANGED ledgerVars)
            /\ (Unauthorized(req[c]) /\ pc'[c] # pc[c])
                  => /\ UNCHANGED << balance, budget, dbFile, transLog >>
                     /\ pc[c] = "ulog_lock" => (pc'[c] = "ulog_write" /\ UNCHANGED unauthLog)
                     /\ pc[c] = "ulog_write"
                           => /\ pc'[c] = "deny"
                              /\ unauthLog' = Append(unauthLog, << req[c].user, req[c].addr >>)
                     /\ pc[c] = "deny"
                           => /\ Replies(c) /\ UNCHANGED unauthLog
                              /\ last'.status = 401 /\ last'.req = req[c]]_vars
    /\ [][unauthLog' # unauthLog
            => \E c \in Clients : Unauthorized(req[c]) /\ pc[c] = "ulog_write"]_vars

\* an empty and an unknown credential have both been turned away, one line each
C11_Witness ==
    /\ Quiescent /\ last.status = 401 /\ last.req.user = "EVE"
    /\ Len(unauthLog) = 2 /\ unauthLog[1] = << "", RemoteAddr("") >>
    /\ unauthLog[2] = << "EVE", RemoteAddr("EVE") >>

\* C12: an OPTIONS request on any route, with or without a credential, is
\* answered 200 with no body in the step in which it arrives: no goroutine
\* ever runs a handler or a logger for it, and balance, budget, the state
\* file and both logs stay as they were.
C12_Options ==
    /\ [](\A c \in Clients : req[c].method # "OPTIONS")
    /\ [][\A c \in Clients :
            (Arrives(c) /\ Arriving(c).method = "OPTIONS")
                => /\ last'.status = 200 /\ last'.body = << >>
                   /\ last'.req = Arriving(c)
                   /\ UNCHANGED << ledgerVars, pc, mu, tlMu, ulMu >>]_vars

\* an OPTIONS request without a credential has been answered 200 after an
\* accepted mutation, and the unauthorized log is still empty
C12_Witness ==
    /\ last.req.method = "OPTIONS" /\ last.req.user = "" /\ last.status = 200
    /\ last.req.route = "set_budget"
    /\ nreq = 2 /\ Len(transLog) = 1 /\ unauthLog = << >>

\* balances a legacy file may hold
LegacyValues == {MinInt32, -60, -1, 0, 1, maxBalance, MaxInt32}
\* the positions of a goroutine inside saveData
SavePcs == {"save_open", "save_write", "save_sync"}
\* loadData has returned nil to main
LoadedNil == pc[Main] = "loaded" /\ loadErr = "nil"

\* C13, the migration itself (under MigrationSpec): the 4 bytes of a legacy
\* file decode to the balance V they were written from, for negative V
\* too; loadData on such a file sets {balance = V, budget = 0} and, when
\* its save succeeds, leaves the 8-byte file that decodes to {V, 0}.
C13_MigrationLoads ==
    /\ \A V \in LegacyValues :
          /\ Uint32(EncodeLegacy(V)) = V
          /\ DecodeState(EncodeState(V, 0)) = [balance |-> V, budget |-> 0]
    /\ [](pc[Main] = "save_open"
            => (dbFile = File(EncodeLegacy(balance)) /\ budget = 0))
    /\ [](pc[Main] \in SavePcs => (balance \in MigratedValues /\ budget = 0))
    /\ [](LoadedNil => /\ balance \in MigratedValues /\ budget = 0
                       /\ dbFile = File(EncodeState(balance, 0)))

\* C13: legacy migration (under MigrationSpec, which starts from a legacy
\* file).  The migration loads {V, 0} and leaves the 8-byte file, and once
\* it has succeeded (main serves and no file operation has failed) no step
\* of the service leaves a state file of the legacy length of 4 bytes.
C13_LegacyMigration ==
    /\ C13_MigrationLoads
    /\ [][(pc[Main] = "serving" /\ nfault = 0)
            => ~(dbFile'.exists /\ Len(dbFile'.data) = 4)]_vars

\* C14: when os.OpenFile, f.Write or f.Sync fails inside a Set, Spend or
\* Set-budget, that step ends the request: it is answered 500 with no
\* success body, no line is added to the transaction log and the ledger
\* mutex is released; a 500 has no other cause.
C14_SaveFailure ==
    [][\A c \in Clients :
        /\ (pc[c] \in SavePcs /\ pc'[c] # pc[c] /\ nfault' # nfault)
              => /\ Replies(c)
                 /\ last'.status = 500 /\ last'.body = << >> /\ last'.req = req[c]
                 /\ transLog' = transLog /\ nok' = nok /\ mu' = 0
        /\ (Replies(c) /\ last'.status = 500)
              => /\ pc[c] \in SavePcs /\ nfault' = nfault + 1
                 /\ req[c].route \in Mutations
        /\ (pc'[c] \in {"tlog_lock", "tlog_write"} /\ pc'[c] # pc[c])
              => nfault' = nfault]_vars

\* a Set-budget whose save failed has been answered 500 after an accepted
\* Spend: the transaction log holds the Spend's line only
C14_Witness ==
    /\ Quiescent /\ PostAnswered("set_budget", 500)
    /\ last.body = << >> /\ nok = 1 /\ Len(transLog) = 1
    /\ transLog[1][2] = "SPEND"

\* C15: a persistence failure never leaves memory and disk disagreeing.
\* When a Set, Spend or Set-budget is answered 500, balance and budget are
\* back at the values they had before the request: the values the handler
\* read before it stored, and, when os.OpenFile failed and so left the file
\* alone, the values the 8-byte state file holds.
C15_MemoryMatchesDisk ==
    [][\A c \in Clients :
        (Replies(c) /\ last'.status = 500)
            => /\ req[c].route = "spend" => balance' = tmp[c].bal
               /\ req[c].route = "set_budget"
                     => (balance' = tmp[c].bal /\ budget' = tmp[c].old)
               /\ (pc[c] = "save_open" /\ dbFile.exists /\ Len(dbFile.data) = 8)
                     => DecodeState(dbFile'.data)
                            = [balance |-> balance', budget |-> budget']]_vars

\* a state file whose length is neither 4 nor 8 bytes
UnknownLength(f) == f.exists /\ Len(f.data) \notin {4, 8}
\* the state file is still the file of unknown length found at startup, and
\* no file operation has failed: os.ReadFile returned its bytes to loadData
CorruptAtStart == dbFile \in InitFiles /\ UnknownLength(dbFile) /\ nfault = 0

\* C16: when the state file found at startup has a length other than 4 or
\* 8 bytes, loadData returns an error and leaves the file alone, and no
\* Set, Spend or Set-budget is applied or overwrites the file: while that
\* file is in place no step changes the file, balance, budget or the
\* transaction log.
C16_CorruptNotServed ==
    [][CorruptAtStart
        => /\ UNCHANGED << dbFile, balance, budget, transLog >>
           /\ (pc[Main] = "load" /\ pc'[Main] # "load")
                 => (nfault' = nfault
                       => (pc'[Main] = "loaded" /\ loadErr' = "invalid data length"))]_vars

\* a well-formed Set, Spend or Set-budget of an allowed user whose amount
\* is inside the handler's range
Accepted(r) ==
    /\ r.route \in Mutations /\ r.method = "POST" /\ r.ok /\ r.user \in users
    /\ r.route = "set" => r.val <= maxBalance
    /\ r.route = "spend" => (-spendLimit <= r.val /\ r.val <= spendLimit)
    /\ r.route = "set_budget" => (0 <= r.val /\ r.val <= maxBalance)

\* C17: when there is no state file at startup, loadData returns nil with
\* {balance = 0, budget = 0}; the file comes into being only in the
\* os.OpenFile of a handler serving an accepted mutation, so while there is
\* no file no mutation has been answered 200 or logged.
C17_MissingFile ==
    /\ []((pc[Main] = "loaded" /\ ~dbFile.exists)
            => (loadErr = "nil" /\ balance = 0 /\ budget = 0))
    /\ [](~dbFile.exists => (nok = 0 /\ transLog = << >>))
    /\ [][(~dbFile.exists /\ dbFile'.exists)
            => \E c \in Clients :
                  /\ pc[c] = "save_open" /\ pc'[c] = "save_write"
                  /\ Accepted(req[c])]_vars

\* with no state file, a rejected request and a Get of {0, 0} have been
\* served and there is still no file
C17_Witness ==
    /\ ~dbFile.exists /\ Quiescent /\ nreq = 2 /\ nfault = 0
    /\ last.req.route = "get" /\ last.status = 200 /\ last.body = << 0, 0 >>

\* the line an accepted request r is to leave in the transaction log
LineOf(r) ==
    << r.user,
       IF r.route = "set" THEN "SET"
       ELSE IF r.route = "spend" THEN "SPEND" ELSE "BUDGET_CHANGE",
       r.val >>
\* the request goroutine c works on in this step
Serving(c) == IF pc[c] = "idle" THEN Arriving(c) ELSE req[c]

\* C18: the transaction log holds one line for every Set, Spend or
\* Set-budget answered 200 and nothing else: its length is the number of
\* such answers plus the handlers that have logged and are about to answer.
\* A line is appended only by the handler of an accepted mutation and
\* carries the caller's credential, SET, SPEND or BUDGET_CHANGE, and the
\* request's amount (the new budget for BUDGET_CHANGE); the 200 follows
\* with that line the latest in the log.  No step taken for a Get, a
\* rejected, an unauthorized or an OPTIONS request changes the log.
C18_TransactionLog ==
    /\ [](Len(transLog) = nok + Cardinality({c \in Clients : pc[c] = "respond"}))
    /\ [](Quiescent => Len(transLog) = nok)
    /\ [][transLog' # transLog
            => \E c \in Clients :
                  /\ pc[c] = "tlog_write" /\ pc'[c] = "respond"
                  /\ Accepted(req[c])
                  /\ transLog' = Append(transLog, LineOf(req[c]))]_vars
    /\ [][\A c \in Clients :
            /\ (Replies(c) /\ last'.status = 200 /\ req[c].route \in Mutations)
                  => /\ pc[c] = "respond" /\ transLog' = transLog
                     /\ transLog[Len(transLog)] = LineOf(req[c])
                     /\ nok' = nok + 1
            /\ ((Arrives(c) \/ pc'[c] # pc[c]) /\ ~Accepted(Serving(c)))
                  => (transLog' = transLog /\ nok' = nok)]_vars

\* a Set-budget from 100 to 150 and a Spend of 10 have been answered 200
\* and logged in that order
C18_Witness ==
    /\ Quiescent /\ nok = 2 /\ budget = 150 /\ balance = 1040
    /\ transLog = << << "MARIA", "BUDGET_CHANGE", 150 >>, << "PAUL", "SPEND", 10 >> >>

\* a Get request the middleware and handleGet's method test let pass
IsGet(r) == r.route = "get" /\ r.method = "GET" /\ r.user \in users

\* C19: Get is a pure read.  handleGet reads the pair while it holds the
\* ledger mutex and answers 200 with the balance and budget of that moment;
\* no step taken for a Get changes balance, budget, the state file, the
\* transaction log or the unauthorized log.
C19_GetPureRead ==
    /\ [](\A c \in Clients : pc[c] = "get_read" => (mu = c /\ IsGet(req[c])))
    /\ [][\A c \in Clients :
            ((Arrives(c) \/ pc'[c] # pc[c]) /\ IsGet(Serving(c)))
                => /\ UNCHANGED ledgerVars
                   /\ Replies(c)
                         => /\ pc[c] = "get_read"
                            /\ last'.status = 200
                            /\ last'.body = << balance, budget >>
                            /\ last'.req = req[c]]_vars

\* a Get after an accepted Spend of 10 has returned the pair {990, 100},
\* which is also what the state file holds
C19_Witness ==
    /\ Quiescent /\ IsGet(last.req) /\ last.status = 200
    /\ last.body = << 990, 100 >> /\ Len(transLog) = 1
    /\ dbFile = File(EncodeState(990, 100))

\* C20: crash atomicity of save.  At every instant after saveData has
\* opened the state file, up to its return, the file holds a complete
\* encoding: the 8 bytes of the state being saved or of the state saved
\* before (in loadData's migration, the 4 bytes of the legacy file), never
\* an empty or partly written file.
C20_SaveAtomic ==
    \A p \in Procs :
        pc[p] \in {"save_write", "save_sync"}
            => /\ dbFile.exists
               /\ \/ Len(dbFile.data) = 8
                  \/ p = Main /\ Len(dbFile.data) = 4

\* the positions of a handler between saveData's return and the response
AuditPcs == {"tlog_lock", "tlog_write", "respond"}

\* C21: persist, then audit, then respond.  A handler reaches logTransaction
\* only from an f.Sync that returned nil, with the state file holding the
\* 8 bytes of the state in memory; its line is appended after that and
\* before the response; and the 200 to a Set, Spend or Set-budget is sent
\* only from there, with the line in the log and the state in the file.
C21_PersistAuditRespond ==
    /\ [](\A c \in Clients :
            pc[c] \in AuditPcs => dbFile = File(EncodeState(balance, budget)))
    /\ [](\A c \in Clients :
            /\ pc[c] \in {"tlog_lock", "tlog_write"} => Len(transLog) = nok
            /\ pc[c] = "respond"
                  => (Len(transLog) = nok + 1
                        /\ transLog[Len(transLog)] = LineOf(req[c])))
    /\ [][\A c \in Clients :
            pc'[c] # pc[c]
                => /\ pc'[c] = "tlog_lock"
                         => (pc[c] = "save_sync" /\ nfault' = nfault)
                   /\ pc'[c] = "tlog_write" => pc[c] = "tlog_lock"
                   /\ pc'[c] = "respond" => pc[c] = "tlog_write"
                   /\ (Replies(c) /\ last'.status = 200 /\ req[c].route \in Mutations)
                         => /\ pc[c] = "respond"
                            /\ dbFile' = File(EncodeState(balance', budget'))
                            /\ UNCHANGED << balance, budget, dbFile, transLog >>]_vars

\* a Set-budget from 100 to 150 has been saved and logged and its response
\* is not yet sent
C21_Witness ==
    \E c \in Clients :
        /\ pc[c] = "respond" /\ req[c].route = "set_budget" /\ nok = 0
        /\ dbFile = File(EncodeState(1050, 150))
        /\ transLog = << << "MARIA", "BUDGET_CHANGE", 150 >> >>

\* the positions of a goroutine waiting for or holding a logger's mutex
LogPcs == {"tlog_lock", "tlog_write", "ulog_lock", "ulog_write"}

\* C22: the two log sinks are independent.  A goroutine waiting for one
\* logger's mutex can take it whenever that mutex is free, whoever holds
\* the other; and no goroutine waits for or holds a logger's mutex while
\* it holds the ledger mutex, so a pending log write never keeps the
\* ledger locked.
C22_SinksIndependent ==
    /\ \A c \in Clients :
          /\ (pc[c] = "tlog_lock" /\ tlMu = 0) => ENABLED logTransaction_lock(c)
          /\ (pc[c] = "ulog_lock" /\ ulMu = 0) => ENABLED logUnauthorized_lock(c)
    /\ \A c \in Clients : pc[c] \in LogPcs => mu # c

\* C23: the order of the lines in the transaction log is the order in which
\* the accepted mutations took the ledger lock.  The log is always the
\* beginning of the sequence of lock acquisitions, behind it by at most the
\* mutation that holds the lock now, and equal to it once every request
\* has been answered.
C23_LogOrder ==
    /\ Len(transLog) <= Len(lockOrder)
    /\ Len(lockOrder) <= Len(transLog) + 1
    /\ transLog = SubSeq(lockOrder, 1, Len(transLog))
    /\ Quiescent => transLog = lockOrder

\* a Spend and a Set-budget of two callers have both been answered 200; the
\* Spend took the lock first and its line comes first
C23_Witness ==
    /\ Quiescent /\ nok = 2
    /\ lockOrder = << << "PAUL", "SPEND", 10 >>, << "MARIA", "BUDGET_CHANGE", 150 >> >>
    /\ transLog = lockOrder

\* some step of a goroutine that is serving a request
Progress == \E c \in Clients : Run(c) \/ Lock(c) \/ logTransaction_lock(c)
                                \/ logUnauthorized_lock(c)

\* C24 (under LiveSpec): a goroutine that has answered holds no mutex,
\* whichever way its handler returned; the ledger mutex is held only by a
\* goroutine inside its handler's critical section; a logger's mutex is
\* taken under the ledger mutex or under none, and the ledger mutex never
\* under a logger's.  So whenever a request is being served some goroutine
\* can step, and under fair scheduling a goroutine waiting for the ledger
\* lock gets it and every request is answered.
C24_LocksReleased ==
    /\ [](\A c \in Clients :
            /\ pc[c] = "idle" => (mu # c /\ tlMu # c /\ ulMu # c)
            /\ mu = c => InSection(c)
            /\ tlMu = c => (mu = c /\ pc[c] = "tlog_write")
            /\ ulMu = c => (mu # c /\ tlMu # c /\ pc[c] = "ulog_write")
            /\ pc[c] = "lock" => (tlMu # c /\ ulMu # c))
    /\ []((\E c \in Clients : pc[c] # "idle") => ENABLED Progress)
    /\ \A c \in Clients : (pc[c] = "lock") ~> (mu = c)
    /\ \A c \in Clients : (pc[c] # "idle") ~> (pc[c] = "idle")

\* a Spend over the cap holds the ledger lock and is about to be answered
\* 400, while another request waits for the lock
C24_Witness ==
    \E c, d \in Clients :
        /\ pc[c] = "lock" /\ mu = d
        /\ pc[d] = "spend_check" /\ ~SpendAllowed(req[d].val)

\* C25 (under CrashSpec): recovery after a crash during saveData is never
\* silently wrong.  When the restarted main gets loadData's result, either
\* loadData returned an error, or memory holds the state persisted before
\* the interrupted mutation, or it holds the state of that mutation; a torn
\* file of 4 bytes is not loaded as {new balance, budget = 0}.
C25_CrashRecovery ==
    (crashed.happened /\ pc[Main] = "loaded")
        => \/ loadErr # "nil"
           \/ [balance |-> balance, budget |-> budget] = crashed.before
           \/ [balance |-> balance, budget |-> budget] = crashed.during

====
